---- MODULE Spec2Model ----
(***************************************************************************)
(* Image Organizer (imo.go): a depth-bounded recursive directory walk that  *)
(* filters files by extension and copies every qualifying file to one flat  *)
(* output directory under a sequential numeric name.                        *)
(*                                                                          *)
(* Strings are sequences of one-character strings, a path is a sequence of  *)
(* names.  The recursion of processDir is a stack of frames; one step of    *)
(* the model is the prologue of a call, one iteration of its loop, or its   *)
(* return.  The verbosity flags only select what is printed and are left    *)
(* out; filepath.Abs is taken to succeed (the paths are absolute already).  *)
(***************************************************************************)
EXTENDS Integers, Sequences, FiniteSets, TLC

\* ------------------------------------------------------------------ bounds
MaxFiles == 3
MaxDepthOpt == 1

\* ----------------------------------------------------------------- strings
Upper == <<"A","B","C","D","E","F","G","H","I","J","K","L","M",
           "N","O","P","Q","R","S","T","U","V","W","X","Y","Z">>
Lower == <<"a","b","c","d","e","f","g","h","i","j","k","l","m",
           "n","o","p","q","r","s","t","u","v","w","x","y","z">>
Digits == <<"0","1","2","3","4","5","6","7","8","9">>

\* byte order of the characters that occur in names
ByteOrder == <<".">> \o Digits \o Upper \o <<"_">> \o Lower

Rank(c) == CHOOSE k \in 1..Len(ByteOrder) : ByteOrder[k] = c

\* strings.ToLower
ToLowerChar(c) ==
    IF \E k \in 1..Len(Upper) : Upper[k] = c
    THEN Lower[CHOOSE k \in 1..Len(Upper) : Upper[k] = c]
    ELSE c

ToLower(s) == [k \in 1..Len(s) |-> ToLowerChar(s[k])]

\* filepath.Ext: the suffix beginning at the final dot, empty without a dot
Ext(name) ==
    IF \E k \in 1..Len(name) : name[k] = "."
    THEN LET d == CHOOSE k \in 1..Len(name) :
                    /\ name[k] = "."
                    /\ \A j \in (k+1)..Len(name) : name[j] # "."
         IN SubSeq(name, d, Len(name))
    ELSE <<>>

\* strings.Split(s, sep) for a one-character separator: one more piece than
\* there are separators, so the empty string splits into one empty piece
RECURSIVE Split(_, _)
Split(s, sep) ==
    IF \E k \in 1..Len(s) : s[k] = sep
    THEN LET d == CHOOSE k \in 1..Len(s) :
                    /\ s[k] = sep
                    /\ \A j \in 1..(k-1) : s[j] # sep
         IN <<SubSeq(s, 1, d-1)>> \o Split(SubSeq(s, d+1, Len(s)), sep)
    ELSE <<s>>

\* strconv.Itoa for n >= 0
RECURSIVE Itoa(_)
Itoa(n) ==
    IF n < 10 THEN <<Digits[n+1]>>
    ELSE Itoa(n \div 10) \o <<Digits[(n % 10) + 1]>>

\* filepath.Join(dir, name) for a clean dir and a single-element name
Join(dir, name) == Append(dir, name)

\* byte-wise string order, as sort.Slice uses in ioutil.ReadDir
RECURSIVE NameLess(_, _)
NameLess(a, b) ==
    IF a = <<>> THEN b # <<>>
    ELSE IF b = <<>> THEN FALSE
    ELSE IF a[1] = b[1] THEN NameLess(Tail(a), Tail(b))
    ELSE Rank(a[1]) < Rank(b[1])

\* ------------------------------------------------------------- the program
VARIABLES
    optExt,             \* -e, the extension string
    optDepth,           \* -d, the search depth
    optScanOnly,        \* -s, scan without copy
    absIn,              \* filepath.Abs(optIn)
    absOut,             \* filepath.Abs(optOut)
    extArr,             \* optExt split at "|"
    id,                 \* image ID
    found,              \* qualified files
    copied,             \* files copied
    failed,             \* failed operations
    dirError,           \* failed to read from directory
    copyError,          \* failed to copy
    depthLimitReached,  \* stopped by maximum depth
    pc,                 \* where main is: start, scan, done, exit2
    stack,              \* the active processDir calls, innermost last
    fs,                 \* the file system: directory path -> its file names
    unreadable,         \* the directories whose listing fails
    calls,              \* history: every processDir call and how its prologue ended
    visits,             \* history: every directory entry the loop took up
    copies              \* history: every copy attempted

opts == <<optExt, optDepth, optScanOnly, absIn, absOut>>
counters == <<found, copied, failed, dirError, copyError, depthLimitReached>>
history == <<calls, visits, copies>>
vars == <<opts, extArr, id, counters, pc, stack, fs, unreadable, history>>

\* the directories of fs directly below dir
SubDirs(dir) ==
    {p \in DOMAIN fs : Len(p) = Len(dir) + 1 /\ SubSeq(p, 1, Len(dir)) = dir}

\* the entries of dir: its sub-directories and its files
Entries(dir) ==
    {[name |-> p[Len(p)], isDir |-> TRUE] : p \in SubDirs(dir)}
        \cup {[name |-> n, isDir |-> FALSE] : n \in fs[dir]}

RECURSIVE SortByName(_)
SortByName(S) ==
    IF S = {} THEN <<>>
    ELSE LET m == CHOOSE e \in S : \A o \in S : o = e \/ NameLess(e.name, o.name)
         IN <<m>> \o SortByName(S \ {m})

\* ioutil.ReadDir: the error case, and the entries sorted by file name
ReadDirFails(from) == from \notin DOMAIN fs \/ from \in unreadable

ReadDir(from) == SortByName(Entries(from))

\* os.Mkdir(absOut, os.ModePerm), its error ignored: creates the directory
\* when it does not exist and its parent does
Mkdir(dir) ==
    IF dir \notin DOMAIN fs
       /\ (Len(dir) = 1 \/ SubSeq(dir, 1, Len(dir) - 1) \in DOMAIN fs)
    THEN [p \in DOMAIN fs \cup {dir} |-> IF p = dir THEN {} ELSE fs[p]]
    ELSE fs

\* the depth check with >= for >, and with the limit one too deep
DepthExceeded_OffByOne(depth) == depth >= optDepth

DepthExceeded_TooDeep(depth) == depth > optDepth + 1

\* the depth check of processDir
DepthExceeded(depth) == depth > optDepth

\* the self check left out
SameDir_Never(from, to) == FALSE

\* "don't copy to itself"
SameDir(from, to) == from = to

\* the system files processDir leaves out
IsExcluded(filename) ==
    \/ filename = <<".","D","S","_","S","T","O","R","E">>
    \/ filename = <<"t","h","u","m","b",".","d","b">>
    \/ filename = <<"T","h","u","m","b",".","d","b">>

\* the extension filter: ext is the file's extension in lower case
ValidExt(ext) == \E k \in 1..Len(extArr) : <<".">> \o extArr[k] = ext

\* -s ignored
SkipCopy_Never == FALSE

\* -s: skip the copy
SkipCopy == optScanOnly

\* id never advanced, and advanced by two
NewId_Stuck(n) == n

NewId_Twice(n) == n + 2

\* id++
NewId(n) == n + 1

\* the file name of cpTo
CpToName(n, ext) == Itoa(n) \o ext

\* copy(from, to): where it can fail, whether it returns an error, and
\* whether the destination file exists afterwards (os.Create made it)
CopyOutcomes == {"ok", "open", "create", "copy", "close"}

CopyErr(outcome) == outcome # "ok"

CopyCreates(outcome) == outcome \in {"ok", "copy", "close"}

CopyPossible(outcome, to) == CopyCreates(outcome) => to \in DOMAIN fs

\* copied++ outside the else
CopiedAfter_Always(n, err) == n + 1

\* the counters after a copy: copied++ on success, failed++ and copyError++
\* on an error
CopiedAfter(n, err) == IF err THEN n ELSE n + 1

FailedAfter(n, err) == IF err THEN n + 1 ELSE n

CopyErrorAfter(n, err) == IF err THEN n + 1 ELSE n

\* failed++ forgotten
FailedAfterDirError_Missing(n) == n

\* the counters after a directory error
DirErrorAfter(n) == n + 1

FailedAfterDirError(n) == n + 1

Top == stack[Len(stack)]

Pop == SubSeq(stack, 1, Len(stack) - 1)

Frame(from, to, depth) ==
    [from |-> from, to |-> to, depth |-> depth,
     stage |-> "entry", files |-> <<>>, i |-> 1]

\* main up to the call of processDir(absIn, absOut, 0)
main ==
    /\ pc = "start"
    /\ extArr' = Split(optExt, "|")
    /\ IF Len(extArr') = 0
       THEN /\ pc' = "exit2"
            /\ UNCHANGED <<fs, stack>>
       ELSE /\ fs' = Mkdir(absOut)
            /\ stack' = <<Frame(absIn, absOut, 0)>>
            /\ pc' = "scan"
    /\ UNCHANGED <<opts, id, counters, unreadable, history>>

\* the prologue of processDir: depth check, self check, ReadDir
processDir_enter ==
    /\ pc = "scan"
    /\ stack # <<>>
    /\ Top.stage = "entry"
    /\ LET f == Top
           end(result) == Append(calls, [from |-> f.from, depth |-> f.depth,
                                         nesting |-> Len(stack), result |-> result])
       IN IF DepthExceeded(f.depth)
          THEN /\ depthLimitReached' = depthLimitReached + 1
               /\ stack' = Pop
               /\ calls' = end("depth")
               /\ UNCHANGED <<failed, dirError>>
          ELSE IF SameDir(f.from, f.to)
          THEN /\ stack' = Pop
               /\ calls' = end("self")
               /\ UNCHANGED <<failed, dirError, depthLimitReached>>
          ELSE IF ReadDirFails(f.from)
          THEN /\ dirError' = DirErrorAfter(dirError)
               /\ failed' = FailedAfterDirError(failed)
               /\ stack' = Pop
               /\ calls' = end("error")
               /\ UNCHANGED depthLimitReached
          ELSE /\ stack' = [stack EXCEPT ![Len(stack)] =
                                [f EXCEPT !.stage = "loop", !.files = ReadDir(f.from)]]
               /\ calls' = end("listed")
               /\ UNCHANGED <<failed, dirError, depthLimitReached>>
    /\ UNCHANGED <<opts, extArr, id, found, copied, copyError, pc, fs,
                   unreadable, visits, copies>>

\* one iteration of the loop over the entries of a listed directory
processDir_entry ==
    /\ pc = "scan"
    /\ stack # <<>>
    /\ Top.stage = "loop"
    /\ Top.i <= Len(Top.files)
    /\ LET f == Top
           file == f.files[f.i]
           next == [stack EXCEPT ![Len(stack)] = [f EXCEPT !.i = f.i + 1]]
           filename == file.name
           ext == ToLower(Ext(filename))
           visit(kind) == Append(visits, [path |-> Join(f.from, filename),
                                          kind |-> kind])
       IN IF file.isDir
          THEN /\ stack' = Append(next, Frame(Join(f.from, filename), f.to, f.depth + 1))
               /\ visits' = visit("dir")
               /\ UNCHANGED <<id, found, copied, failed, copyError, fs, copies>>
          ELSE IF IsExcluded(filename)
          THEN /\ stack' = next
               /\ visits' = visit("excluded")
               /\ UNCHANGED <<id, found, copied, failed, copyError, fs, copies>>
          ELSE IF ~ValidExt(ext)
          THEN /\ stack' = next
               /\ visits' = visit("other")
               /\ UNCHANGED <<id, found, copied, failed, copyError, fs, copies>>
          ELSE IF SkipCopy
          THEN /\ found' = found + 1
               /\ stack' = next
               /\ visits' = visit("found")
               /\ UNCHANGED <<id, copied, failed, copyError, fs, copies>>
          ELSE \E outcome \in CopyOutcomes :
               /\ CopyPossible(outcome, f.to)
               /\ found' = found + 1
               /\ id' = NewId(id)
               /\ fs' = IF CopyCreates(outcome)
                        THEN [fs EXCEPT ![f.to] = @ \cup {CpToName(id', ext)}]
                        ELSE fs
               /\ copied' = CopiedAfter(copied, CopyErr(outcome))
               /\ failed' = FailedAfter(failed, CopyErr(outcome))
               /\ copyError' = CopyErrorAfter(copyError, CopyErr(outcome))
               /\ stack' = next
               /\ visits' = visit("found")
               /\ copies' = Append(copies, [cpFrom |-> Join(f.from, filename),
                                            stem |-> id',
                                            cpTo |-> CpToName(id', ext),
                                            err |-> CopyErr(outcome),
                                            created |-> CopyCreates(outcome)])
    /\ UNCHANGED <<opts, extArr, dirError, depthLimitReached, pc, unreadable, calls>>

\* the loop is over: processDir returns to its caller
processDir_return ==
    /\ pc = "scan"
    /\ stack # <<>>
    /\ Top.stage = "loop"
    /\ Top.i > Len(Top.files)
    /\ stack' = Pop
    /\ UNCHANGED <<opts, extArr, id, counters, pc, fs, unreadable, history>>

\* processDir(absIn, absOut, 0) has returned: main shows the result, exit 0
report ==
    /\ pc = "scan"
    /\ stack = <<>>
    /\ pc' = "done"
    /\ UNCHANGED <<opts, extArr, id, counters, stack, fs, unreadable, history>>

Next ==
    \/ main
    \/ processDir_enter
    \/ processDir_entry
    \/ processDir_return
    \/ report

\* ------------------------------------------------------------ the inputs
\* directory names and paths
N_in == <<"i","n">>
N_out == <<"o","u","t">>
N_x == <<"x">>
N_y == <<"y">>
N_z == <<"z">>
N_w == <<"w">>
N_o == <<"o">>

D_in == <<N_in>>
D_x == <<N_in, N_x>>
D_y == <<N_in, N_x, N_y>>
D_z == <<N_in, N_z>>
D_w == <<N_in, N_x, N_y, N_w>>
D_o == <<N_in, N_o>>
D_out == <<N_out>>

\* file names
F_a_jpg == <<"a",".","j","p","g">>
F_B_PNG == <<"B",".","P","N","G">>
F_c_txt == <<"c",".","t","x","t">>
F_Thumb_db == <<"T","h","u","m","b",".","d","b">>
F_1_jpg == <<"1",".","j","p","g">>
F_a_JPG == <<"a",".","J","P","G">>
F_b_Jpg == <<"b",".","J","p","g">>
F_d_dot == <<"d",".">>
F_noext == <<"e">>
F_DS == <<".","D","S","_","S","T","O","R","E">>

\* extension strings
E_jpg == <<"j","p","g">>
E_JPG == <<"J","P","G">>
E_Jpg == <<"J","p","g">>
E_empty == <<>>
E_jpg_png_db == <<"j","p","g","|","p","n","g","|","d","b">>
E_PNG_jpg == <<"P","N","G","|","j","p","g">>
E_ds_store == <<"d","s","_","s","t","o","r","e">>

\* the directories that exist before the run, and the files each may hold
TreeDirs == {D_in, D_x, D_y, D_w, D_z, D_out}

TreeFiles(dir) ==
    IF dir = D_in THEN {F_a_jpg, F_B_PNG, F_c_txt, F_Thumb_db}
    ELSE IF dir = D_x THEN {F_a_jpg}
    ELSE IF dir = D_y THEN {F_B_PNG}
    ELSE IF dir = D_z THEN {F_a_jpg}
    ELSE IF dir = D_w THEN {F_a_jpg}
    ELSE {F_1_jpg}

RECURSIVE FileCount(_, _)
FileCount(f, dirs) ==
    IF dirs = {} THEN 0
    ELSE LET d == CHOOSE d \in dirs : TRUE
         IN Cardinality(f[d]) + FileCount(f, dirs \ {d})

Trees ==
    {f \in {[d \in TreeDirs |->
                IF d = D_in THEN a ELSE IF d = D_x THEN b ELSE IF d = D_y THEN c
                ELSE IF d = D_z THEN e ELSE IF d = D_w THEN h ELSE g] :
             a \in SUBSET TreeFiles(D_in), b \in SUBSET TreeFiles(D_x),
             c \in SUBSET TreeFiles(D_y), e \in SUBSET TreeFiles(D_z),
             g \in SUBSET TreeFiles(D_out), h \in SUBSET TreeFiles(D_w)} :
        FileCount(f, TreeDirs) <= MaxFiles}

OutChoices == {D_out, D_in, D_x, D_y, D_o}

UnreadableChoices == {{}, {D_x}, {D_y}, {D_z}, {D_in}, {D_x, D_z}}

\* one directory of files with extensions in every letter case
ExtFiles == {F_a_jpg, F_a_JPG, F_b_Jpg, F_B_PNG, F_d_dot, F_noext, F_DS, F_Thumb_db}

ExtChoices == {E_jpg, E_JPG, E_Jpg, E_empty, E_PNG_jpg, E_ds_store}

ExtTrees ==
    {[d \in {D_in, D_out} |-> IF d = D_in THEN S ELSE {}] :
        S \in {T \in SUBSET ExtFiles : Cardinality(T) <= MaxFiles - 1}}

InitRun ==
    /\ absIn = D_in
    /\ extArr = <<>>
    /\ id = 0
    /\ found = 0
    /\ copied = 0
    /\ failed = 0
    /\ dirError = 0
    /\ copyError = 0
    /\ depthLimitReached = 0
    /\ pc = "start"
    /\ stack = <<>>
    /\ calls = <<>>
    /\ visits = <<>>
    /\ copies = <<>>

\* trees of directories, with the default kind of extension string
InitTree ==
    /\ optExt = E_jpg_png_db
    /\ optDepth \in 0..MaxDepthOpt
    /\ optScanOnly \in BOOLEAN
    /\ absOut \in OutChoices
    /\ unreadable \in UnreadableChoices
    /\ fs \in Trees
    /\ (absOut # D_out => fs[D_out] = {})

\* one directory, with extension strings and file names in every letter case
InitExt ==
    /\ optExt \in ExtChoices
    /\ optDepth = 0
    /\ optScanOnly \in BOOLEAN
    /\ absOut = D_out
    /\ unreadable = {}
    /\ fs \in ExtTrees

Init == InitRun /\ (InitTree \/ InitExt)

Spec == Init /\ [][Next]_vars

\* the runs over trees of directories only
InitTrees == InitRun /\ InitTree

SpecTree == InitTrees /\ [][Next]_vars

\* the trees the completion of the run is checked on: fewer of them, every
\* kind of stop among them
LiveOutChoices == {D_out, D_x}

LiveUnreadableChoices == {{}, {D_y}, {D_z}, {D_x, D_z}}

InitLive ==
    /\ InitRun
    /\ InitTree
    /\ absOut \in LiveOutChoices
    /\ unreadable \in LiveUnreadableChoices
    /\ FileCount(fs, TreeDirs) <= MaxFiles - 1

\* the run is sequential: whenever a step is possible it is taken
FairSpec == InitLive /\ [][Next]_vars /\ WF_vars(Next)

\* ------------------------------------------------- what the claims speak of
Range(q) == {q[k] : k \in 1..Len(q)}

NoRepeat(q) == \A j, k \in 1..Len(q) : q[j] = q[k] => j = k

IsPrefix(p, q) == Len(p) <= Len(q) /\ SubSeq(q, 1, Len(p)) = p

\* strictly beneath dir
Beneath(dir, path) == Len(path) > Len(dir) /\ IsPrefix(dir, path)

\* the depth processDir has when called on dir
DepthOf(dir) == Len(dir) - Len(absIn)

\* a file name without its extension
Stem(name) == SubSeq(name, 1, Len(name) - Len(Ext(name)))

\* the accepted extensions as the run was given them, with the leading dot
Accepted == {<<".">> \o extArr[k] : k \in 1..Len(extArr)}

SystemFile(name) == name \in {F_DS, F_Thumb_db, <<"t","h","u","m","b",".","d","b">>}

\* a qualifying file name: not a system file, its lower-case extension accepted
Qualifying(name) == ~SystemFile(name) /\ ToLower(Ext(name)) \in Accepted

\* the entries a complete walk takes up at and beneath dir, taken as skipped
\* when dir lies beyond the depth limit, cannot be listed, or (with
\* skipOut) is the output directory
RECURSIVE Walk(_, _)
Walk(dir, skipOut) ==
    IF \/ DepthOf(dir) > optDepth
       \/ dir \notin DOMAIN fs
       \/ dir \in unreadable
       \/ (skipOut /\ dir = absOut)
    THEN {}
    ELSE {Join(dir, n) : n \in fs[dir]}
            \cup SubDirs(dir)
            \cup UNION {Walk(p, skipOut) : p \in SubDirs(dir)}

\* the files among them, and the qualifying ones
WalkFiles(skipOut) == {p \in Walk(absIn, skipOut) : p \notin DOMAIN fs}

WalkQualifying(skipOut) == {p \in WalkFiles(skipOut) : Qualifying(p[Len(p)])}

\* the paths of the file entries taken up so far that qualify
QualifyingVisits ==
    SelectSeq(visits, LAMBDA v : v.kind # "dir" /\ Qualifying(v.path[Len(v.path)]))

\* stem k has no file in the output directory
StemMissing(k) == ~\E n \in fs[absOut] : Stem(n) = Itoa(k)

Done == pc = "done"

CopyMode == ~optScanOnly

\* ------------------------------------------------------------------ claims

\* in copy mode the k-th qualifying file taken up gets stem k, and its
\* destination name is that stem with the file's lower-case extension
C1_Sequential ==
    CopyMode =>
        /\ Len(copies) = Len(QualifyingVisits)
        /\ \A k \in 1..Len(copies) :
              /\ copies[k].stem = k
              /\ copies[k].cpFrom = QualifyingVisits[k].path
              /\ Stem(copies[k].cpTo) = Itoa(k)
        /\ NoRepeat([k \in 1..Len(copies) |-> copies[k].cpTo])

\* C1 as stated: in copy mode the k-th qualifying file gets stem k (distinct,
\* strictly increasing stems, no gap from filtering), and the stems missing
\* from the output directory at the end of the run are exactly the stems
\* whose copy failed.
C1_MissingExactlyFailed ==
    /\ C1_Sequential
    /\ (Done /\ CopyMode) =>
          {k \in 1..Len(copies) : StemMissing(k)}
              = {k \in 1..Len(copies) : copies[k].err}

\* C1 amended: in copy mode the k-th qualifying file taken up gets destination
\* stem k (so stems are distinct, strictly increasing, and not consumed by
\* non-qualifying or excluded files or skipped directories), every stem whose
\* copy succeeded has its file in the output directory, and so every stem
\* missing from the output directory is one whose copy failed.
C1_StemsSequential ==
    /\ C1_Sequential
    /\ CopyMode =>
          \A k \in 1..Len(copies) :
              /\ ~copies[k].err => copies[k].cpTo \in fs[absOut]
              /\ StemMissing(k) => copies[k].err

C1_Witness ==
    /\ Done
    /\ CopyMode
    /\ Len(copies) = 2
    /\ copies[1].err
    /\ StemMissing(1)
    /\ ~copies[2].err
    /\ \E k \in 1..Len(visits) : visits[k].kind = "excluded"
    /\ \E k \in 1..Len(calls) : calls[k].result = "depth"

\* the step about to be taken is the prologue of a processDir call
AtPrologue == pc = "scan" /\ stack # <<>> /\ Top.stage = "entry"

\* the step about to be taken takes up a file entry
AtFile ==
    /\ pc = "scan"
    /\ stack # <<>>
    /\ Top.stage = "loop"
    /\ Top.i <= Len(Top.files)
    /\ ~Top.files[Top.i].isDir

VisitPaths == [k \in 1..Len(visits) |-> visits[k].path]

\* an accepted extension equals the file's extension up to letter case
AcceptedIgnoringCase(name) ==
    \E k \in 1..Len(extArr) : ToLower(<<".">> \o extArr[k]) = ToLower(Ext(name))

\* C2 as stated: a file whose extension differs from an accepted extension
\* only in letter case, on either side, qualifies.
C2_CaseInsensitiveBothSides ==
    \A k \in 1..Len(visits) :
        LET v == visits[k]
            n == v.path[Len(v.path)]
        IN (v.kind # "dir" /\ ~SystemFile(n) /\ AcceptedIgnoringCase(n))
              => v.kind = "found"

\* the prologue of a call beyond the depth limit
C3_DepthStopStep ==
    (AtPrologue /\ Top.depth > optDepth) =>
        /\ depthLimitReached' = depthLimitReached + 1
        /\ stack' = Pop
        /\ UNCHANGED <<found, copied, failed, dirError, copyError, id, fs,
                       visits, copies>>

\* what the calls made so far show of the depth limit
C3_DepthInv ==
    /\ \A k \in 1..Len(calls) :
          LET c == calls[k]
          IN /\ c.depth = DepthOf(c.from)
             /\ c.depth <= optDepth + 1
             /\ (c.depth > optDepth <=> c.result = "depth")
             /\ c.depth > optDepth =>
                   /\ \A j \in 1..Len(visits) : ~Beneath(c.from, visits[j].path)
                   /\ \A j \in 1..Len(copies) : ~Beneath(c.from, copies[j].cpFrom)
    /\ NoRepeat([k \in 1..Len(calls) |-> calls[k].from])
    /\ depthLimitReached = Cardinality({k \in 1..Len(calls) : calls[k].depth > optDepth})
    /\ (Done /\ optDepth = 0 /\ calls[1].result = "listed") =>
          /\ depthLimitReached = Cardinality(SubDirs(absIn))
          /\ Range(VisitPaths) = {Join(absIn, n) : n \in fs[absIn]} \cup SubDirs(absIn)
          /\ found = Cardinality({n \in fs[absIn] : Qualifying(n)})

\* C3: a processDir call at depth > optDepth (the root at 0, a sub-directory at
\* its parent's depth + 1) stops at the depth check: it adds exactly 1 to
\* depthLimitReached and changes nothing else, it is never listed, nothing
\* beneath it is taken up or copied, no call is deeper than optDepth + 1, and
\* with optDepth = 0 a listed root has its own files processed and one stop
\* per sub-directory.
C3_DepthLimit == [][C3_DepthStopStep]_vars /\ []C3_DepthInv

C3_Witness ==
    /\ Done
    /\ optDepth = 0
    /\ depthLimitReached = 2
    /\ found >= 1
    /\ fs[D_x] # {}
    /\ fs[D_w] # {}

\* the prologue of a call whose directory cannot be listed
C4_DirErrorStep ==
    (/\ AtPrologue
     /\ Top.depth <= optDepth
     /\ Top.from # Top.to
     /\ (Top.from \notin DOMAIN fs \/ Top.from \in unreadable)) =>
        /\ failed' = failed + 1
        /\ dirError' = dirError + 1
        /\ stack' = Pop
        /\ UNCHANGED <<found, copied, copyError, depthLimitReached, id, fs,
                       visits, copies>>

\* nothing beneath an unlistable directory is taken up; the rest is
C4_DirErrorInv ==
    /\ \A k \in 1..Len(calls) :
          calls[k].result = "error" =>
              \A j \in 1..Len(visits) : ~Beneath(calls[k].from, visits[j].path)
    /\ dirError = Cardinality({k \in 1..Len(calls) : calls[k].result = "error"})
    /\ Done =>
          /\ Range(VisitPaths) = Walk(absIn, TRUE)
          /\ found = Cardinality(WalkQualifying(TRUE))

\* C4: a failed directory listing adds exactly 1 to failed and to dirError,
\* changes no other counter nor id, takes up nothing beneath the directory and
\* returns; at the end of the run the entries taken up, and found, are those
\* of the walk in which every unlistable directory counts as empty.
C4_DirErrorIsolated == [][C4_DirErrorStep]_vars /\ []C4_DirErrorInv

C4_Witness ==
    /\ Done
    /\ dirError = 1
    /\ \E k \in 1..Len(calls) : calls[k].from = D_x /\ calls[k].result = "error"
    /\ fs[D_x] # {}
    /\ \E k \in 1..Len(visits) :
          visits[k].path = Join(D_z, F_a_jpg) /\ visits[k].kind = "found"
    /\ found = 2

\* the step that takes up a qualifying file in copy mode
C5_CopyStep ==
    (AtFile /\ CopyMode /\ Qualifying(Top.files[Top.i].name)) =>
        /\ found' = found + 1
        /\ id' = id + 1
        /\ \/ copied' = copied + 1 /\ failed' = failed /\ copyError' = copyError
           \/ copied' = copied /\ failed' = failed + 1 /\ copyError' = copyError + 1
        /\ UNCHANGED <<dirError, depthLimitReached>>

\* the counter equations
C5_CountersInv ==
    /\ failed = dirError + copyError
    /\ CopyMode =>
          /\ found = copied + copyError
          /\ copied <= found
          /\ copyError = Cardinality({k \in 1..Len(copies) : copies[k].err})
          /\ \A k \in 1..Len(copies) : copies[k].stem = k

\* C5: in copy mode a qualifying file adds 1 to found and to id, and then
\* either 1 to copied alone, or 1 to failed and to copyError alone; the stems
\* handed out stay consecutive after a failure; so found = copied + copyError
\* and copied <= found, and in every mode failed = dirError + copyError.
C5_CopyAccounting == [][C5_CopyStep]_vars /\ []C5_CountersInv

C5_Witness ==
    /\ Done
    /\ CopyMode
    /\ found = 3
    /\ copied = 2
    /\ copyError = 1
    /\ dirError = 1
    /\ copies[1].err
    /\ ~copies[2].err

\* C6 as stated: in every configuration, scan-only mode included, the number
\* of IDs allocated equals the found counter between any two entries.
C6_IdEqualsFound == id = found

\* C6 amended: in copy mode every qualifying file consumes exactly one ID when
\* it is found to qualify, whether or not its copy succeeds, so id = found
\* between any two entries; in scan-only mode no ID is allocated and id stays 0.
C6_IdEqualsFoundInCopyMode ==
    /\ CopyMode => id = found
    /\ optScanOnly => id = 0

C6_Witness ==
    /\ CopyMode
    /\ pc = "scan"
    /\ id = 2
    /\ found = 2
    /\ copied = 0

\* in scan-only mode a step changes no directory's files
C7_NoFileChange ==
    optScanOnly =>
        /\ \A d \in DOMAIN fs : d \in DOMAIN fs' /\ fs'[d] = fs[d]
        /\ \A d \in DOMAIN fs' \ DOMAIN fs : fs'[d] = {}

\* in scan-only mode no copy is attempted and found ends as the number of
\* qualifying files of the walk, with or without the output directory
C7_ScanInv(skipOut) ==
    optScanOnly =>
        /\ copies = <<>>
        /\ copied = 0
        /\ copyError = 0
        /\ Done => found = Cardinality(WalkQualifying(skipOut))

\* C7 as stated: in scan-only mode no copy is attempted, no file is created,
\* copied and copyError stay 0, and found ends equal to the number of
\* qualifying files within the depth limit in listable directories.
C7_FoundCountsAllReachable == [][C7_NoFileChange]_vars /\ []C7_ScanInv(FALSE)

\* C7 amended: in scan-only mode no copy is attempted, no file is created,
\* copied and copyError stay 0, and found ends equal to the number of
\* qualifying files within the depth limit in listable directories other than
\* the output directory and what lies beneath it -- a function of the tree
\* and the options alone.
C7_ScanOnlyCounts == [][C7_NoFileChange]_vars /\ []C7_ScanInv(TRUE)

C7_Witness ==
    /\ Done
    /\ optScanOnly
    /\ found = 2
    /\ absOut = D_x
    /\ fs[D_x] # {}
    /\ depthLimitReached + dirError = 0

\* C8 as stated: with an empty extension string main exits before processDir
\* is called.
C8_EmptyExtensionIsFatal ==
    optExt = <<>> => (pc \in {"start", "exit2"} /\ stack = <<>> /\ calls = <<>>)

\* the nesting bound, and every entry of a listed directory exactly once
C9_RunInv ==
    /\ Len(stack) <= optDepth + 2
    /\ NoRepeat(VisitPaths)
    /\ Done =>
          /\ stack = <<>>
          /\ Range(VisitPaths) =
                UNION {{Join(calls[k].from, n) : n \in fs[calls[k].from]}
                           \cup SubDirs(calls[k].from) :
                       k \in {j \in 1..Len(calls) : calls[j].result = "listed"}}
          /\ Range(VisitPaths) = Walk(absIn, TRUE)

\* C9: every run completes: processDir(absIn, absOut, 0) returns and main
\* reports; at no time are more than optDepth + 2 processDir calls active;
\* no entry is taken up twice, and at the end the entries taken up are all
\* the entries of the directories listed.
C9_RunCompletes == <>Done /\ []C9_RunInv

C9_Witness ==
    /\ Done
    /\ optDepth = 1
    /\ \E k \in 1..Len(calls) : calls[k].nesting = 3
    /\ dirError = 1
    /\ copyError = 1
    /\ copied = 1

\* the prologue of a call on the output directory within the depth limit
C10_SelfStep ==
    (AtPrologue /\ Top.depth <= optDepth /\ Top.from = Top.to) =>
        /\ stack' = Pop
        /\ UNCHANGED <<counters, id, fs, visits, copies>>

\* the output directory is never listed, nothing beneath it taken up
C10_SelfInv ==
    /\ \A k \in 1..Len(calls) :
          calls[k].from = absOut =>
              calls[k].result = IF calls[k].depth > optDepth THEN "depth" ELSE "self"
    /\ \A k \in 1..Len(visits) : ~Beneath(absOut, visits[k].path)
    /\ \A k \in 1..Len(copies) : ~Beneath(absOut, copies[k].cpFrom)

\* C10: a processDir call with from = to at a depth within the limit returns
\* without listing and changes no counter nor id (beyond the limit it is a
\* depth-limit stop), so nothing in or beneath the output directory is ever
\* taken up, counted or copied, files copied there in the same run included.
C10_OutputNotScanned == [][C10_SelfStep]_vars /\ []C10_SelfInv

C10_Witness ==
    /\ Done
    /\ CopyMode
    /\ absOut = D_x
    /\ \E k \in 1..Len(calls) : calls[k].result = "self" /\ calls[k].depth = 1
    /\ {F_a_jpg, F_1_jpg} \subseteq fs[absOut]
    /\ found = 1

====
